---- MODULE Spec2Model ----
(***************************************************************************)
(* Document-to-ticket pipeline of the Slack PRD bot.                       *)
(*                                                                         *)
(*   bot/slack_handlers.py    ANALYSIS_CACHE, handle_message_events,       *)
(*                            handle_create_tasks                          *)
(*   bot/jira_integration.py  _PRIORITY_MAPPING, create_jira_tasks         *)
(*                                                                         *)
(* Every handler invocation runs on its own thread of the bolt listener    *)
(* pool.  A step of the model is one operation that is visible outside the *)
(* thread: a dictionary operation on ANALYSIS_CACHE (atomic under the      *)
(* interpreter lock), one HTTP request to the tracker with the handling of *)
(* its response, the end of one time.sleep, one chat post.                 *)
(***************************************************************************)
EXTENDS Integers, Sequences, FiniteSets, TLC

(***************************************************************************)
(* Bounds of the model.                                                    *)
(***************************************************************************)
\* confirmation events (button clicks) handled during one run
NumConf == 2
\* document uploads handled during one run
MaxUploads == 2
\* longest requirement list of the sample documents
MaxReqs == 2
\* width of the significand of a float and of random.random()'s grid
\* (53 in CPython; the rounding of wait = retry_after + random.random()
\* has the same shape at every width that represents 61 exactly)
MantBits == 6

(***************************************************************************)
(* Values.                                                                 *)
(***************************************************************************)
\* Python's None in an Optional[str] field of a Requirement
None == "<None>"
\* Python's None in Optional[int] estimated_hours
NoneInt == -1
\* a key that is absent from a payload dictionary
NoField == "<no field>"

Truthy(s) == s # None /\ s # ""

TruthyInt(n) == n # NoneInt /\ n # 0

MapPriority_unknownToMedium(raw_prio) ==
    CASE raw_prio = "Critical" -> "High"
      [] raw_prio = "Major"    -> "Medium"
      [] raw_prio = "Minor"    -> "Low"
      [] OTHER                 -> "Medium"

\* _PRIORITY_MAPPING.get(raw_prio, raw_prio)
MapPriority(raw_prio) ==
    CASE raw_prio = "Critical" -> "High"
      [] raw_prio = "Major"    -> "Medium"
      [] raw_prio = "Minor"    -> "Low"
      [] OTHER                 -> raw_prio

\* format_adf_description: one paragraph holding the text
format_adf_description(text) ==
    [type |-> "doc", version |-> 1, paragraph |-> text]

\* the `fields` dictionary built for one requirement
BuildFields(req) ==
    [ summary      |-> req.title,
      description  |-> format_adf_description(req.description),
      issuetype    |-> "Task",
      labels       |-> <<"automated", "prd-generated">>,
      priority     |-> IF Truthy(req.priority)
                       THEN MapPriority(req.priority) ELSE NoField,
      assignee     |-> IF Truthy(req.assignee) THEN req.assignee ELSE NoField,
      timetracking |-> IF TruthyInt(req.estimated_hours)
                       THEN ToString(req.estimated_hours) \o "h" ELSE NoField ]

PopPriority_keep(fields) == fields

\* payload["fields"].pop("priority", None)
PopPriority(fields) == [fields EXCEPT !.priority = NoField]


(***************************************************************************)
(* The tracker's responses to POST /rest/api/3/issue.                      *)
(***************************************************************************)
\* max_retries
max_retries == 3
\* the default of resp.headers.get("Retry-After", 60)
DefaultRetryAfter == 60

\* Retry-After header values: absent, delay-seconds, or an HTTP-date
RetryAfterHeaders == {"absent", "1", "2", "date"}

Response(status, hdr, body) == [status |-> status, hdr |-> hdr, body |-> body]

\* body: "issue" {key: ...}; "priority" a JSON error object whose errors map
\* names priority; "other" a JSON error object that does not; "nojson" a body
\* resp.json() cannot parse
AllResponses ==
    { Response(201, "absent", "issue") }
      \cup { Response(429, h, "other") : h \in RetryAfterHeaders }
      \cup { Response(400, "absent", b) : b \in {"priority", "other", "nojson"} }
      \cup { Response(200, "absent", "nojson") }

\* the responses drawn when several confirmations run side by side
CoarseResponses ==
    { Response(201, "absent", "issue"), Response(429, "absent", "other"),
      Response(400, "absent", "priority"), Response(400, "absent", "other") }

\* int(...) raises ValueError on a header that is not an integer literal
IntParses(hdr) == hdr # "date"

\* int(resp.headers.get("Retry-After", 60))
RetryAfter_defaultZero(hdr) ==
    CASE hdr = "absent" -> 0
      [] hdr = "1"      -> 1
      [] hdr = "2"      -> 2

RetryAfter(hdr) ==
    CASE hdr = "absent" -> DefaultRetryAfter
      [] hdr = "1"      -> 1
      [] hdr = "2"      -> 2

MayRetry_inclusive(attempt) == attempt <= max_retries

\* if attempt < max_retries
MayRetry(attempt) == attempt < max_retries

\* resp.json() succeeds
JsonParses(body) == body # "nojson"

\* resp.raise_for_status() raises HTTPError
RaisesForStatus(status) == status >= 400

HasPriorityError_anyError(body) == body \in {"priority", "other"}

\* "priority" in field_errors
HasPriorityError(body) == body = "priority"

(***************************************************************************)
(* wait = retry_after + random.random(), in units of 2^-MantBits seconds.  *)
(* random.random() is k / 2^MantBits with 0 <= k < 2^MantBits; the sum is  *)
(* rounded to the nearest float, ties to the even significand.             *)
(***************************************************************************)
RECURSIVE Pow2(_)
Pow2(n) == IF n = 0 THEN 1 ELSE 2 * Pow2(n - 1)

Second == Pow2(MantBits)

RECURSIVE Binade(_)
\* the e with 2^e <= n < 2^(e+1), n >= 1
Binade(n) == IF n < 2 THEN 0 ELSE 1 + Binade(n \div 2)

\* the values random.random() is sampled at: 0, one step, the middle, the top
JitterSamples == {0, 1, Second \div 2, Second - 1}

FloatAdd_jitterOnly(retry_after, k) == k

FloatAdd(retry_after, k) ==
    LET exact == retry_after * Second + k
        ulp   == IF retry_after = 0 THEN 1 ELSE Pow2(Binade(retry_after) + 1)
        q     == exact \div ulp
        rem   == exact % ulp
    IN  IF 2 * rem < ulp THEN q * ulp
        ELSE IF 2 * rem > ulp THEN (q + 1) * ulp
        ELSE IF q % 2 = 0 THEN q * ulp ELSE (q + 1) * ulp


(***************************************************************************)
(* Requirements and documents.                                             *)
(***************************************************************************)
Requirement(id, priority, assignee, estimated_hours) ==
    [ id |-> id, title |-> "T-" \o id, description |-> "D-" \o id,
      priority |-> priority, assignee |-> assignee,
      estimated_hours |-> estimated_hours ]

SamplePriorities == <<"Critical", None, "Urgent">>

\* the i-th requirement of the sample documents
SampleReq(i) ==
    Requirement("R" \o ToString(i),
                SamplePriorities[((i - 1) % Len(SamplePriorities)) + 1],
                None, NoneInt)

Prefix(n) == [i \in 1..n |-> SampleReq(i)]

Reverse(seq) == [i \in 1..Len(seq) |-> seq[Len(seq) + 1 - i]]

\* extraction results of the sample documents: no requirement, the longest
\* list, and the same requirements in the opposite order
SampleDocs ==
    { << >>, Prefix(MaxReqs), Reverse(Prefix(MaxReqs)) }

\* the lists of every length up to the longest
PrefixDocs == { Prefix(n) : n \in 0..MaxReqs }

\* one-requirement documents over every combination of the optional fields
FieldDocs ==
    { << Requirement("R1", p, a, e) >> :
        p \in {None, "", "Critical", "Major", "Minor", "Urgent"},
        a \in {None, "", "acc-1"},
        e \in {NoneInt, 0, 1, 8} }

\* [r.dict() for r in analysis.requirements]
DictList_dropLast(requirements) ==
    SubSeq(requirements, 1, Len(requirements) - 1)

DictList(requirements) == requirements

(***************************************************************************)
(* Model output and its parsing: _strip_code_fences and                    *)
(* analyze_with_openai.  A string is the sequence of its lines; a line is  *)
(* its leading whitespace and the rest of it, and a line of whitespace     *)
(* alone is a blank line.  The string "" has no line.                      *)
(***************************************************************************)
Line(indent, body) == [indent |-> indent, body |-> body]

BlankLine == Line(0, "")

IsBlank(line) == line.body = ""

\* response.choices[0].message.content: None, or a string
NoContent == [none |-> TRUE, lines |-> << >>]

Content(lines) == [none |-> FALSE, lines |-> lines]

RECURSIVE LStrip(_)
LStrip(lines) ==
    IF lines # << >> /\ IsBlank(Head(lines)) THEN LStrip(Tail(lines))
    ELSE lines

RECURSIVE RStrip(_)
RStrip(lines) ==
    IF lines # << >> /\ IsBlank(lines[Len(lines)])
    THEN RStrip(SubSeq(lines, 1, Len(lines) - 1))
    ELSE lines

\* s.strip().splitlines(): the blank lines at both ends go, and so does the
\* whitespace before the first line's text
StripSplit(lines) ==
    LET t == RStrip(LStrip(lines))
    IN  IF t = << >> THEN t ELSE [t EXCEPT ![1].indent = 0]

\* the marker ```, written with a stand-in for the backquote, and the marker
\* followed by a language tag
Fence == "'''"

FenceJson == Fence \o "json"

FenceMarkers == {Fence, FenceJson}

StartsWithFence_bare(line) == line.indent = 0 /\ line.body = Fence

\* line.startswith("```")
StartsWithFence(line) == line.indent = 0 /\ line.body \in FenceMarkers

\* the lines of the string _strip_code_fences returns
_strip_code_fences(s) ==
    LET lines == StripSplit(s)
        l1 == IF lines # << >> /\ StartsWithFence(lines[1])
              THEN Tail(lines) ELSE lines
        l2 == IF l1 # << >> /\ StartsWithFence(l1[Len(l1)])
              THEN SubSeq(l1, 1, Len(l1) - 1) ELSE l1
    IN  l2

\* a value json.loads returns, as far as RequirementExtractionResponse looks
\* at it
JsonValue(type, has_requirements, requirements, has_total) ==
    [ type |-> type, has_requirements |-> has_requirements,
      requirements |-> requirements, has_total |-> has_total ]

\* the sample JSON texts, each with the value it denotes
JsonTable ==
    { [ text  |-> << "[]" >>,
        value |-> JsonValue("array", FALSE, << >>, FALSE) ],
      [ text  |-> << "null" >>,
        value |-> JsonValue("null", FALSE, << >>, FALSE) ],
      [ text  |-> << "{}" >>,
        value |-> JsonValue("object", FALSE, << >>, FALSE) ],
      [ text  |-> << "{\"requirements\": []}" >>,
        value |-> JsonValue("object", TRUE, << >>, FALSE) ],
      [ text  |-> << "{\"requirements\": [], \"total_requirements\": 0}" >>,
        value |-> JsonValue("object", TRUE, << >>, TRUE) ],
      [ text  |-> << "{\"requirements\": [",
                     "{\"title\": \"T-R1\"}",
                     "], \"total_requirements\": 1}" >>,
        value |-> JsonValue("object", TRUE,
                            << [SampleReq(1) EXCEPT !.id = None] >>, TRUE) ],
      [ text  |-> << "{\"requirements\": [",
                     "{\"id\": \"R1\"}",
                     "], \"total_requirements\": 1}" >>,
        value |-> JsonValue("object", TRUE,
                            << [SampleReq(1) EXCEPT !.title = None] >>, TRUE) ],
      [ text  |-> << "{\"requirements\": [",
                     "{\"id\": \"R1\", \"title\": \"T-R1\", \"description\": \"D-R1\", \"priority\": \"Critical\"}",
                     "], \"total_requirements\": 1}" >>,
        value |-> JsonValue("object", TRUE, << SampleReq(1) >>, TRUE) ] }

\* sample texts that are not JSON: prose, a text cut short, a lone marker
OtherTexts ==
    { << "Here are the requirements:" >>,
      << "{\"requirements\": [" >>,
      << Fence >> }

\* the text of the lines that are not blank: JSON ignores the whitespace
\* between its tokens
Bodies(lines) ==
    LET kept == SelectSeq(lines, LAMBDA line : ~IsBlank(line))
    IN  [i \in 1..Len(kept) |-> kept[i].body]

\* json.loads raises JSONDecodeError
JSONDecodeError(lines) == \A e \in JsonTable : e.text # Bodies(lines)

\* json.loads
JsonLoads(lines) == (CHOOSE e \in JsonTable : e.text = Bodies(lines)).value

\* what analyze_with_openai ends with: the exception it raises, or the
\* requirements of the response it returns
Outcome(exc, msg, requirements) ==
    [ exc |-> exc, msg |-> msg, requirements |-> requirements ]

EmptyMessage == "OpenAI response did not contain any content."

ParseMessage == "Could not parse JSON from model response"

\* RequirementExtractionResponse(**data)
Validate(data) ==
    IF data.type # "object"
    THEN Outcome("TypeError", "argument after ** must be a mapping", << >>)
    ELSE IF \/ ~data.has_requirements
            \/ ~data.has_total
            \/ \E i \in 1..Len(data.requirements) :
                 \/ data.requirements[i].id = None
                 \/ data.requirements[i].title = None
    THEN Outcome("ValidationError", "validation error", << >>)
    ELSE Outcome("", "", data.requirements)

\* analyze_with_openai from the model's answer on
analyze_with_openai(content_raw) ==
    IF content_raw.none \/ content_raw.lines = << >>
    THEN Outcome("ValueError", EmptyMessage, << >>)
    ELSE LET content == _strip_code_fences(content_raw.lines)
         IN  IF JSONDecodeError(content)
             THEN Outcome("ValueError", ParseMessage, << >>)
             ELSE Validate(JsonLoads(content))

\* a text laid out with whitespace around it: none, before the first line's
\* text, a blank line before, a blank line after
Layouts == {"plain", "indented", "blank before", "blank after"}

Laid(text, layout) ==
    LET lines == [i \in 1..Len(text) |-> Line(0, text[i])]
    IN  CASE layout = "plain"        -> lines
          [] layout = "indented"     -> [lines EXCEPT ![1].indent = 1]
          [] layout = "blank before" -> << BlankLine >> \o lines
          [] layout = "blank after"  -> lines \o << BlankLine >>

\* a leading fence line, a trailing fence line, both or none ("" is none)
Wraps == [lead : {"", Fence, FenceJson}, trail : {"", Fence}]

Wrapped(lines, wrap) ==
    (IF wrap.lead = "" THEN << >> ELSE << Line(0, wrap.lead) >>)
    \o lines
    \o (IF wrap.trail = "" THEN << >> ELSE << Line(0, wrap.trail) >>)

SampleTexts == { e.text : e \in JsonTable } \cup OtherTexts

NoWrap == [lead |-> "", trail |-> ""]

\* an answer of the model: a text (its lines), the fence lines put around it,
\* and the content that results
Answer(text, wrap) ==
    [ text |-> text, wrap |-> wrap, content |-> Content(Wrapped(text, wrap)) ]

\* the answers of the model: no content (None), the empty text and every
\* sample text in every layout, each with every wrap
ModelAnswers ==
    { [ text |-> << >>, wrap |-> NoWrap, content |-> NoContent ] }
    \cup { Answer(<< >>, w) : w \in Wraps }
    \cup { Answer(Laid(t, l), w) : t \in SampleTexts, l \in Layouts, w \in Wraps }

(***************************************************************************)
(* State.                                                                  *)
(***************************************************************************)
VARIABLES
    store,      \* ANALYSIS_CACHE: cache key -> list of requirement dicts
    nextKey,    \* cache keys generated so far (uuid4 never repeats one)
    uploads,    \* file_share events handled so far
    exposed,    \* cache keys carried by a posted "Create Jira Tasks" button
    th,         \* one handle_create_tasks invocation per confirmation event
    msgs,       \* per confirmation event, the messages posted to its thread
    putVal,     \* history: the list stored under each generated key
    log,        \* history: per invocation, the create calls of the
                \* requirement in hand, each with the response it got
    takes,      \* history: per cache key, the pops that returned a list (hit)
                \* and the pops that returned None (miss)
    tickets,    \* tracker: 201 responses given per cache key and requirement
    calls,      \* history: per invocation, the create calls made so far
    share       \* history: the last file_share event handled, from the model
                \* output to what was said in the thread

vars == <<store, nextKey, uploads, exposed, th, msgs, putVal, log, takes,
          tickets, calls, share>>

Handlers == 1..NumConf
Keys == 1..MaxUploads
\* the value of a button posted before the process was last started
StaleKey == MaxUploads + 1

\* no file_share event handled yet
NoShare ==
    [ stage |-> "none", text |-> << >>, wrap |-> [lead |-> "", trail |-> ""],
      content |-> NoContent, stripped |-> << >>,
      result |-> Outcome("", "", << >>), said |-> << >> ]

NoFields ==
    [ summary |-> NoField, description |-> format_adf_description(NoField),
      issuetype |-> NoField, labels |-> <<>>, priority |-> NoField,
      assignee |-> NoField, timetracking |-> NoField ]

\* the locals of an invocation that has not started or has ended
NoFrame ==
    [ pc |-> "idle", cache_key |-> 0,
      requirements |-> [none |-> TRUE, val |-> <<>>],
      idx |-> 0, attempt |-> 0, payload |-> NoFields,
      created_tasks |-> <<>>, wait |-> 0, exc |-> "" ]

Init ==
    /\ store = << >>
    /\ nextKey = 0
    /\ uploads = 0
    /\ exposed = {}
    /\ th = [h \in Handlers |-> NoFrame]
    /\ msgs = [h \in Handlers |-> << >>]
    /\ putVal = << >>
    /\ log = [h \in Handlers |-> << >>]
    /\ takes = [k \in Keys \cup {StaleKey} |-> [hit |-> 0, miss |-> 0]]
    /\ tickets = [k \in Keys |-> [i \in 1..MaxReqs |-> 0]]
    /\ calls = [h \in Handlers |-> 0]
    /\ share = NoShare

(***************************************************************************)
(* The pending-review store: ANALYSIS_CACHE[cache_key] = ... and           *)
(* ANALYSIS_CACHE.pop(cache_key, None).                                    *)
(***************************************************************************)
StoreAfterPut(cache, key, value) ==
    [k \in DOMAIN cache \cup {key} |-> IF k = key THEN value ELSE cache[k]]

\* what pop returns: the stored list, or the default None
PopValue(cache, key) ==
    IF key \in DOMAIN cache
    THEN [none |-> FALSE, val |-> cache[key]]
    ELSE [none |-> TRUE, val |-> << >>]

StoreAfterPop_keep(cache, key) == cache

StoreAfterPop_clear(cache, key) == << >>

\* the dictionary after pop
StoreAfterPop(cache, key) ==
    [k \in DOMAIN cache \ {key} |-> cache[k]]

IsNone_falsy(requirements) == requirements.none \/ requirements.val = << >>

\* if requirements is None
IsNone(requirements) == requirements.none


(***************************************************************************)
(* create_jira_tasks, as steps on the locals l of one invocation.          *)
(***************************************************************************)
\* an exception leaves create_jira_tasks: its frame, created_tasks included,
\* is gone, and handle_create_tasks is in its except clause holding e
Raise(l, e) ==
    [l EXCEPT !.pc = "post_failed", !.exc = e, !.idx = 0, !.attempt = 0,
              !.payload = NoFields, !.created_tasks = << >>, !.wait = 0]

\* the top of `for req in requirements` for the i-th requirement, or
\* `return created_tasks` after the last one
StartRequirement(l, i) ==
    IF i > Len(l.requirements.val)
    THEN [l EXCEPT !.pc = "post_created", !.idx = 0, !.attempt = 0,
                   !.payload = NoFields, !.wait = 0]
    ELSE [l EXCEPT !.pc = "call", !.idx = i, !.attempt = 0, !.wait = 0,
                   !.payload = BuildFields(l.requirements.val[i])]

CreatedTask_firstId(l) ==
    [ requirement_id |-> l.requirements.val[1].id,
      jira_key       |-> <<l.cache_key, l.idx>> ]

CreatedTask(l) ==
    [ requirement_id |-> l.requirements.val[l.idx].id,
      jira_key       |-> <<l.cache_key, l.idx>> ]

OnCreated_noBreak(l) ==
    LET m == [l EXCEPT !.created_tasks = Append(@, CreatedTask(l))]
    IN  IF l.pc = "call" /\ l.attempt < max_retries
        THEN [m EXCEPT !.attempt = @ + 1]
        ELSE StartRequirement(m, l.idx + 1)

\* status 201: created_tasks.append(...); break
OnCreated(l) ==
    StartRequirement([l EXCEPT !.created_tasks = Append(@, CreatedTask(l))],
                     l.idx + 1)

\* the `elif resp.status_code == 429` branch; k is random.random()'s draw
OnRateLimited(l, r, k) ==
    IF ~IntParses(r.hdr) THEN Raise(l, "ValueError")
    ELSE IF MayRetry(l.attempt)
    THEN [l EXCEPT !.pc = "sleep", !.wait = FloatAdd(RetryAfter(r.hdr), k)]
    ELSE Raise(l, "HTTPError")

\* the `else` branch of the attempt loop
OnOtherError(l, r) ==
    IF ~JsonParses(r.body) /\ RaisesForStatus(r.status)
    THEN Raise(l, "HTTPError")
    ELSE IF JsonParses(r.body) /\ HasPriorityError(r.body)
    THEN [l EXCEPT !.pc = "call2", !.payload = PopPriority(@)]
    ELSE Raise(l, "Exception")

\* one pass of `for attempt in range(max_retries + 1)` from the response on
OnResponse(l, r, k) ==
    IF r.status = 201 THEN OnCreated(l)
    ELSE IF r.status = 429 THEN OnRateLimited(l, r, k)
    ELSE OnOtherError(l, r)

\* the handling of resp2, the response to the call without priority
OnResponse2(l, r) ==
    IF r.status = 201 THEN OnCreated(l)
    ELSE IF ~JsonParses(r.body) /\ RaisesForStatus(r.status)
    THEN Raise(l, "HTTPError")
    ELSE Raise(l, "Exception")

(***************************************************************************)
(* handle_message_events.  The store is touched once, by the assignment    *)
(* under a fresh key; everything before it can fail and leaves the store   *)
(* alone, and the closing say() can fail after it.                         *)
(***************************************************************************)
Upload(docs, limit) ==
    /\ uploads < limit
    /\ uploads' = uploads + 1
    /\ \/ \* files_info, the download or analyze_document raised
          UNCHANGED <<store, nextKey, exposed, putVal>>
       \/ \E doc \in docs, said \in BOOLEAN :
            LET key == nextKey + 1 IN
            /\ nextKey' = key
            /\ store' = StoreAfterPut(store, key, DictList(doc))
            /\ putVal' = StoreAfterPut(putVal, key, doc)
            /\ exposed' = IF said THEN exposed \cup {key} ELSE exposed
    /\ UNCHANGED <<th, msgs, log, takes, tickets, calls, share>>

\* what can raise in handle_message_events before the model has answered
StageFailures ==
    { [ stage |-> "files_info",   exc |-> "SlackApiError" ],
      [ stage |-> "download",     exc |-> "HTTPError" ],
      [ stage |-> "download",     exc |-> "ConnectionError" ],
      [ stage |-> "extract_text", exc |-> "Exception" ],
      [ stage |-> "model_call",   exc |-> "APIError" ] }

Processing == "Processing your document"

SaidOnError_byMessage(result) ==
    IF result.msg = EmptyMessage THEN "The model returned no content."
    ELSE "Unexpected error processing your document."

\* the three except clauses of handle_message_events
SaidOnError(result) ==
    CASE result.exc = "SlackApiError" -> "Failed to fetch file. Check permissions."
      [] result.exc = "HTTPError"     -> "Could not download the document."
      [] OTHER -> "Unexpected error processing your document."

Complete == "Document analysis complete! Review below:"

\* handle_message_events for a file_share event, from the first say() to the
\* last, with the model's answer parsed as analyze_with_openai parses it
FileShare(answers, limit) ==
    /\ uploads < limit
    /\ uploads' = uploads + 1
    /\ \/ \* the first say() raised: return
          /\ share' = [NoShare EXCEPT !.stage = "say"]
          /\ UNCHANGED <<store, nextKey, exposed, putVal>>
       \/ \E f \in StageFailures :
            LET result == Outcome(f.exc, "", << >>) IN
            /\ share' = [NoShare EXCEPT !.stage = f.stage, !.result = result,
                                        !.said = << Processing,
                                                    SaidOnError(result) >>]
            /\ UNCHANGED <<store, nextKey, exposed, putVal>>
       \/ \E a \in answers :
            LET result == analyze_with_openai(a.content)
                heard  == [NoShare EXCEPT
                             !.text = a.text, !.wrap = a.wrap,
                             !.content = a.content,
                             !.stripped = _strip_code_fences(a.content.lines),
                             !.result = result]
                key    == nextKey + 1
            IN  IF result.exc # ""
                THEN /\ share' = [heard EXCEPT
                                    !.stage = "analysis",
                                    !.said = << Processing,
                                                SaidOnError(result) >>]
                     /\ UNCHANGED <<store, nextKey, exposed, putVal>>
                ELSE /\ nextKey' = key
                     /\ store' = StoreAfterPut(store, key,
                                               DictList(result.requirements))
                     /\ putVal' = StoreAfterPut(putVal, key,
                                                result.requirements)
                     /\ \/ /\ exposed' = exposed \cup {key}
                           /\ share' = [heard EXCEPT
                                          !.stage = "complete",
                                          !.said = << Processing, Complete >>]
                        \/ \* the last say() raised SlackApiError
                           /\ exposed' = exposed
                           /\ share' =
                                [heard EXCEPT
                                   !.stage = "say_blocks",
                                   !.said = << Processing,
                                      SaidOnError(Outcome("SlackApiError", "",
                                                          << >>)) >>]
    /\ UNCHANGED <<th, msgs, log, takes, tickets, calls>>

(***************************************************************************)
(* handle_create_tasks.                                                    *)
(***************************************************************************)
\* a click on a posted button: ack(), cache_key = body["actions"][0]["value"].
\* Invocations are numbered in the order their events arrive.
Confirm(h) ==
    /\ th[h].pc = "idle"
    /\ IF h = 1 THEN TRUE ELSE th[h - 1].pc # "idle"
    /\ \E key \in exposed \cup {StaleKey} :
         th' = [th EXCEPT ![h] = [@ EXCEPT !.pc = "take", !.cache_key = key]]
    /\ UNCHANGED <<store, nextKey, uploads, exposed, msgs, putVal, log, takes,
                   tickets, calls, share>>

Take_unlessWaiting(h) ==
    /\ th[h].pc = "take"
    /\ \A g \in Handlers : th[g].pc # "sleep"
    /\ LET got == PopValue(store, th[h].cache_key)
           l   == [th[h] EXCEPT !.requirements = got]
       IN  /\ store' = StoreAfterPop(store, th[h].cache_key)
           /\ th' = [th EXCEPT ![h] =
                       IF IsNone(got)
                       THEN [l EXCEPT !.pc = "post_reupload"]
                       ELSE StartRequirement(l, 1)]
           /\ takes' = [takes EXCEPT ![th[h].cache_key] =
                          IF got.none THEN [@ EXCEPT !.miss = @ + 1]
                          ELSE [@ EXCEPT !.hit = @ + 1]]
    /\ UNCHANGED <<nextKey, uploads, exposed, msgs, putVal, log, tickets,
                   calls, share>>

\* requirements = ANALYSIS_CACHE.pop(cache_key, None), and the test on it
Take(h) ==
    /\ th[h].pc = "take"
    /\ LET got == PopValue(store, th[h].cache_key)
           l   == [th[h] EXCEPT !.requirements = got]
       IN  /\ store' = StoreAfterPop(store, th[h].cache_key)
           /\ th' = [th EXCEPT ![h] =
                       IF IsNone(got)
                       THEN [l EXCEPT !.pc = "post_reupload"]
                       ELSE StartRequirement(l, 1)]
           /\ takes' = [takes EXCEPT ![th[h].cache_key] =
                          IF got.none THEN [@ EXCEPT !.miss = @ + 1]
                          ELSE [@ EXCEPT !.hit = @ + 1]]
    /\ UNCHANGED <<nextKey, uploads, exposed, msgs, putVal, log, tickets,
                   calls, share>>

LogEntry(l, r) == [idx |-> l.idx, fields |-> l.payload, resp |-> r]

Created(l, r) ==
    IF r.status = 201
    THEN [tickets EXCEPT ![l.cache_key][l.idx] = @ + 1]
    ELSE tickets

\* resp = requests.post(...) in the attempt loop, and what follows it up to
\* the next request, sleep or exit
Call(h, responses, jitters) ==
    /\ th[h].pc = "call"
    /\ \E r \in responses, k \in jitters :
         /\ r.status = 429 \/ k = 0
         /\ th' = [th EXCEPT ![h] = OnResponse(th[h], r, k)]
         /\ log' = [log EXCEPT ![h] =
                      IF th[h].attempt = 0 THEN << LogEntry(th[h], r) >>
                      ELSE Append(@, LogEntry(th[h], r))]
         /\ tickets' = Created(th[h], r)
    /\ calls' = [calls EXCEPT ![h] = @ + 1]
    /\ UNCHANGED <<store, nextKey, uploads, exposed, msgs, putVal, takes,
                   share>>

Wake_sameAttempt(h) ==
    /\ th[h].pc = "sleep"
    /\ th' = [th EXCEPT ![h] = [@ EXCEPT !.pc = "call", !.wait = 0]]
    /\ UNCHANGED <<store, nextKey, uploads, exposed, msgs, putVal, log, takes,
                   tickets, calls, share>>

\* time.sleep(wait) returns; continue
Wake(h) ==
    /\ th[h].pc = "sleep"
    /\ th' = [th EXCEPT ![h] = [@ EXCEPT !.pc = "call", !.attempt = @ + 1,
                                         !.wait = 0]]
    /\ UNCHANGED <<store, nextKey, uploads, exposed, msgs, putVal, log, takes,
                   tickets, calls, share>>

\* resp2 = requests.post(...) without priority, and what follows it
Call2(h, responses) ==
    /\ th[h].pc = "call2"
    /\ \E r \in responses :
         /\ th' = [th EXCEPT ![h] = OnResponse2(th[h], r)]
         /\ log' = [log EXCEPT ![h] = Append(@, LogEntry(th[h], r))]
         /\ tickets' = Created(th[h], r)
    /\ calls' = [calls EXCEPT ![h] = @ + 1]
    /\ UNCHANGED <<store, nextKey, uploads, exposed, msgs, putVal, takes,
                   share>>

Message_failed(l) == [kind |-> "failed", items |-> << >>]

Message(l) ==
    CASE l.pc = "post_reupload" -> [kind |-> "reupload", items |-> << >>]
      [] l.pc = "post_created"  -> [kind |-> "created", items |-> l.created_tasks]
      [] l.pc = "post_failed"   -> [kind |-> "failed", items |-> << >>]

\* client.chat_postMessage(...): the three calls of handle_create_tasks.
\* One that raises inside the try block enters the except clause; one that
\* raises inside the except clause ends the invocation.
Post(h) ==
    /\ th[h].pc \in {"post_reupload", "post_created", "post_failed"}
    /\ \/ /\ msgs' = [msgs EXCEPT ![h] = Append(@, Message(th[h]))]
          /\ th' = [th EXCEPT ![h] = [NoFrame EXCEPT !.pc = "done"]]
          /\ log' = [log EXCEPT ![h] = << >>]
          /\ calls' = [calls EXCEPT ![h] = 0]
       \/ /\ msgs' = msgs
          /\ IF th[h].pc = "post_failed"
             THEN /\ th' = [th EXCEPT ![h] = [NoFrame EXCEPT !.pc = "done"]]
                  /\ log' = [log EXCEPT ![h] = << >>]
                  /\ calls' = [calls EXCEPT ![h] = 0]
             ELSE /\ th' = [th EXCEPT ![h] =
                              [@ EXCEPT !.pc = "post_failed",
                                        !.exc = "SlackApiError",
                                        !.created_tasks = << >>]]
                  /\ log' = log
                  /\ calls' = calls
    /\ UNCHANGED <<store, nextKey, uploads, exposed, putVal, takes, tickets,
                   share>>

(***************************************************************************)
(* Specifications.                                                         *)
(***************************************************************************)
\* the pipeline: uploads and confirmations side by side
Next ==
    \/ Upload(SampleDocs, MaxUploads)
    \/ \E h \in Handlers : Confirm(h)
    \/ \E h \in Handlers : Take(h)
    \/ \E h \in Handlers : Call(h, CoarseResponses, {0})
    \/ \E h \in Handlers : Wake(h)
    \/ \E h \in Handlers : Call2(h, CoarseResponses)
    \/ \E h \in Handlers : Post(h)

Spec == Init /\ [][Next]_vars

\* one confirmation at a time, over every response, header and jitter sample
\* and over every combination of a requirement's optional fields
NextEngine ==
    \/ Upload(PrefixDocs \cup FieldDocs, 1)
    \/ Confirm(1)
    \/ Take(1)
    \/ Call(1, AllResponses, JitterSamples)
    \/ Wake(1)
    \/ Call2(1, AllResponses)
    \/ Post(1)

SpecEngine == Init /\ [][NextEngine]_vars

\* the confirmation's own steps: none of them waits for anything but time
Progress ==
    \/ Take(1)
    \/ Call(1, AllResponses, JitterSamples)
    \/ Wake(1)
    \/ Call2(1, AllResponses)
    \/ Post(1)

\* the same, with the handler's thread running on as long as it has a step
\* to take; uploads and clicks come when they come, or never
SpecEngineLive == SpecEngine /\ WF_vars(Progress)

\* document events alone, over every answer of the model
NextParser == FileShare(ModelAnswers, MaxUploads)

SpecParser == Init /\ [][NextParser]_vars

(***************************************************************************)
(* Properties.                                                             *)
(***************************************************************************)
\* the invocation has popped the store and has not ended
Holding(h) == th[h].pc \notin {"idle", "take", "done"}

\* invocation h pops the store in this step
Took(h) == th[h].pc = "take" /\ th'[h].pc # "take"

\* C1: a list put under a freshly generated key comes back from the first take
\* of that key exactly as it was put, same elements in the same order, and
\* the take removes the entry; every later take of the key gets None; the
\* entries of the other keys stay as they were put, whatever puts and takes
\* happen in between.
C1_PutTakeRoundTrip ==
    [][ /\ \A k \in DOMAIN store : store[k] = putVal[k]
        /\ \A h \in Handlers :
             Took(h) =>
               LET key == th[h].cache_key
                   got == th'[h].requirements
               IN  IF key \in DOMAIN putVal /\ takes[key].hit = 0
                   THEN /\ got = [none |-> FALSE, val |-> putVal[key]]
                        /\ key \notin DOMAIN store'
                        /\ \A k \in DOMAIN store \ {key} :
                             k \in DOMAIN store' /\ store'[k] = store[k]
                   ELSE /\ got.none
                        /\ store' = store ]_vars

\* a two-element list came back from its key as it was put, a second take of
\* that key got None, and another key was put along the way and is live
C1_Witness ==
    /\ Holding(1) /\ Holding(2)
    /\ th[1].cache_key = 1 /\ th[2].cache_key = 1
    /\ th[1].requirements = [none |-> FALSE, val |-> putVal[1]]
    /\ Len(putVal[1]) = 2
    /\ th[2].requirements.none
    /\ takes[1] = [hit |-> 1, miss |-> 1]
    /\ DOMAIN store = {2}

\* C2: of the confirmations handled side by side with one live key, exactly
\* one gets the requirement list and goes on to ticket creation; each of the
\* others gets None, makes no create call and goes to post the re-upload
\* message.
C2_OneTakerPerKey ==
    /\ \A k \in DOMAIN putVal :
         /\ takes[k].hit <= 1
         /\ takes[k].hit + takes[k].miss > 0 => takes[k].hit = 1
    /\ \A h \in Handlers :
         Holding(h) /\ th[h].requirements.none =>
           /\ log[h] = << >>
           /\ \/ th[h].pc = "post_reupload"
              \/ th[h].pc = "post_failed" /\ th[h].exc = "SlackApiError"
    /\ \A g, h \in Handlers :
         /\ g # h /\ Holding(g) /\ Holding(h)
         /\ th[g].cache_key = th[h].cache_key
         => th[g].requirements.none \/ th[h].requirements.none

\* two confirmations of key 1 in flight at once: one is creating tickets, the
\* other is about to post the re-upload message
C2_Witness ==
    /\ th[1].cache_key = 1 /\ th[2].cache_key = 1
    /\ {th[1].pc, th[2].pc} = {"call", "post_reupload"}
    /\ takes[1] = [hit |-> 1, miss |-> 1]

(***************************************************************************)
(* The create calls of the requirement in hand, as the tracker saw them.   *)
(***************************************************************************)
Last(seq) == seq[Len(seq)]

RateLimit(r) == r.status = 429

\* neither 201 nor 429, and the errors map names priority
PriorityRejection(r) == r.status \notin {201, 429} /\ r.body = "priority"

\* neither 201 nor 429, and no errors map that names priority
OtherError(r) == r.status \notin {201, 429} /\ r.body # "priority"

\* the call of position j was issued by the attempt loop, not by the fallback
LoopCall(lg, j) == j = 1 \/ ~PriorityRejection(lg[j - 1].resp)

\* tickets the tracker holds for the requirements stored under key
TicketCount(key) == Cardinality({i \in 1..MaxReqs : tickets[key][i] > 0})

\* entries of created_tasks for the requirement id
CreatedFor(l, id) ==
    Cardinality({j \in 1..Len(l.created_tasks) :
                    l.created_tasks[j].requirement_id = id})

\* create_jira_tasks raised in invocation h
EngineFailed(h) == th[h].pc = "post_failed" /\ th[h].exc # "SlackApiError"

\* C3: when ticket creation fails on a requirement after the first, the
\* tickets already created are in the engine's result and in the message
\* posted with the failure.
C3_PartialResultsSurfaced ==
    \A h \in Handlers :
      EngineFailed(h) =>
        /\ Len(th[h].created_tasks) = TicketCount(th[h].cache_key)
        /\ Len(Message(th[h]).items) = TicketCount(th[h].cache_key)

\* C4: the tracker gives at most one 201 for each requirement stored under
\* each key, whatever it answers otherwise and however many confirmations
\* carry the key.
C4_AtMostOneTicket ==
    \A k \in Keys : \A i \in 1..MaxReqs : tickets[k][i] <= 1

\* a requirement has its ticket, the run failed on the next requirement, and
\* a confirmation repeated with the same key found nothing
C4_Witness ==
    /\ tickets[1][1] = 1 /\ tickets[1][2] = 0
    /\ takes[1] = [hit |-> 1, miss |-> 1]
    /\ \E h \in Handlers :
         th[h].pc = "done" /\ msgs[h] = << [kind |-> "failed", items |-> << >>] >>
    /\ \E h \in Handlers : th[h].pc = "post_reupload" /\ th[h].cache_key = 1

\* C5: a 429 received while fewer than 3 rate-limit retries have been made for
\* the requirement is followed by a wait and a retry, whichever create call
\* of the requirement it answers.
C5_RateLimitAlwaysRetried ==
    \A h \in Handlers :
      LET lg == log[h] IN
      ( /\ Holding(h) /\ lg # << >>
        /\ RateLimit(Last(lg).resp)
        /\ Cardinality({j \in 1..(Len(lg) - 1) : RateLimit(lg[j].resp)}) < 3 )
      => th[h].pc \in {"sleep", "call"}

\* C6: at most 3 rate-limit waits and retries per requirement; the 4th 429 in
\* a row ends the batch in failure with no ticket for the requirement and no
\* further create call.
C6_RetryBound ==
    \A h \in Handlers :
      LET lg == log[h] IN
      /\ Cardinality({j \in 2..Len(lg) : RateLimit(lg[j - 1].resp)}) <= 3
      /\ th[h].pc = "sleep" =>
           Cardinality({j \in 1..Len(lg) : RateLimit(lg[j].resp)}) <= 3
      /\ \A j \in 4..Len(lg) :
           (\A i \in (j - 3)..j : RateLimit(lg[i].resp)) =>
             /\ Len(lg) = j
             /\ EngineFailed(h)
             /\ tickets[th[h].cache_key][lg[j].idx] = 0

\* four 429s in a row on the second requirement of a batch
C6_Witness ==
    /\ Len(log[1]) = 4
    /\ \A j \in 1..4 : RateLimit(log[1][j].resp) /\ log[1][j].idx = 2
    /\ th[1].pc = "post_failed"
    /\ tickets[1][1] = 1

\* the Retry-After value of a 429, in seconds: 60 without the header
Advised(r) == IF r.hdr = "absent" THEN 60 ELSE IF r.hdr = "1" THEN 1 ELSE 2

Statuses(lg) == [j \in 1..Len(lg) |-> lg[j].resp.status]

Headers(lg) == [j \in 1..Len(lg) |-> lg[j].resp.hdr]

\* the responses 429 (Retry-After 2), 429 (Retry-After 1), 201 yield one ticket
C7_Example(h) ==
    ( /\ Statuses(log[h]) = <<429, 429, 201>>
      /\ SubSeq(Headers(log[h]), 1, 2) = <<"2", "1">> )
    => /\ tickets[th[h].cache_key][log[h][3].idx] = 1
       /\ th[h].pc # "post_failed" =>
            CreatedFor(th[h], th[h].requirements.val[log[h][3].idx].id) = 1

\* C7 as claimed: every wait is at least the advised value and less than the
\* advised value plus one second.
C7_WaitBelowAdvisedPlusOne ==
    \A h \in Handlers :
      /\ th[h].pc = "sleep" =>
           /\ th[h].wait >= Advised(Last(log[h]).resp) * Second
           /\ th[h].wait < (Advised(Last(log[h]).resp) + 1) * Second
      /\ C7_Example(h)

\* C7 as amended: every wait is at least the advised value and at most the
\* advised value plus one second.
C7_WaitWithinAdvisedPlusOne ==
    \A h \in Handlers :
      /\ th[h].pc = "sleep" =>
           /\ th[h].wait >= Advised(Last(log[h]).resp) * Second
           /\ th[h].wait <= (Advised(Last(log[h]).resp) + 1) * Second
      /\ C7_Example(h)

\* after 429 (Retry-After 2), 429 (Retry-After 1), 201 on the first
\* requirement, one ticket
C7_Witness ==
    /\ Statuses(log[1]) = <<429, 429, 201>>
    /\ Headers(log[1]) = <<"2", "1", "absent">>
    /\ CreatedFor(th[1], "R1") = 1
    /\ tickets[1][1] = 1

\* the payload fields other than priority
Rest(fields) ==
    [ summary |-> fields.summary, description |-> fields.description,
      issuetype |-> fields.issuetype, labels |-> fields.labels,
      assignee |-> fields.assignee, timetracking |-> fields.timetracking ]

\* C8: a priority rejection of a call of the attempt loop is followed by
\* exactly one more create call for the requirement, with the same payload
\* less priority; a 201 to it gives the requirement its one ticket and the
\* batch goes on, anything else ends the batch in failure with no ticket for
\* the requirement and no further create call.
C8_PriorityFallback ==
    \A h \in Handlers :
      LET lg == log[h]
          l  == th[h]
      IN  \A j \in 1..Len(lg) :
            LoopCall(lg, j) /\ PriorityRejection(lg[j].resp) =>
              IF j = Len(lg)
              THEN /\ l.pc = "call2"
                   /\ l.idx = lg[j].idx
                   /\ l.payload.priority = NoField
                   /\ Rest(l.payload) = Rest(lg[j].fields)
              ELSE /\ Len(lg) = j + 1
                   /\ lg[j + 1].idx = lg[j].idx
                   /\ lg[j + 1].fields.priority = NoField
                   /\ Rest(lg[j + 1].fields) = Rest(lg[j].fields)
                   /\ IF lg[j + 1].resp.status = 201
                      THEN /\ tickets[l.cache_key][lg[j].idx] = 1
                           /\ \/ /\ l.pc \in {"call", "post_created"}
                                 /\ Len(l.created_tasks) = lg[j].idx
                                 /\ CreatedFor(l, l.requirements.val[lg[j].idx].id) = 1
                                 /\ l.pc = "call" <=> lg[j].idx < Len(l.requirements.val)
                                 /\ l.pc = "call" => l.idx = lg[j].idx + 1
                              \/ l.pc = "post_failed" /\ l.exc = "SlackApiError"
                      ELSE /\ EngineFailed(h)
                           /\ tickets[l.cache_key][lg[j].idx] = 0

\* a requirement with priority Critical was rejected on priority after one
\* rate-limit retry and got its ticket from the call without priority, and the
\* batch is at the next requirement
C8_Witness ==
    /\ Len(log[1]) = 3
    /\ RateLimit(log[1][1].resp)
    /\ PriorityRejection(log[1][2].resp) /\ log[1][2].fields.priority = "High"
    /\ log[1][3].resp.status = 201 /\ log[1][3].fields.priority = NoField
    /\ th[1].pc = "call" /\ th[1].idx = 2

\* C9: a response that is neither 201 nor 429 and does not name priority is
\* the last create call of the batch, and the engine ends in failure.
C9_OtherErrorTerminal ==
    \A h \in Handlers :
      \A j \in 1..Len(log[h]) :
        OtherError(log[h][j].resp) =>
          /\ j = Len(log[h])
          /\ EngineFailed(h)
          /\ tickets[th[h].cache_key][log[h][j].idx] = 0

\* a body that is not JSON ended a batch of two requirements on the first
C9_Witness ==
    /\ Len(log[1]) = 1
    /\ log[1][1].resp = Response(400, "absent", "nojson")
    /\ Len(th[1].requirements.val) = 2
    /\ th[1].pc = "post_failed"

\* the payload as create_jira_tasks built it is the one of a call of the
\* attempt loop
Built(h) == th[h].pc \in {"call", "sleep"}

TableName(p) ==
    CASE p = "Critical" -> "High"
      [] p = "Major"    -> "Medium"
      [] p = "Minor"    -> "Low"
      [] OTHER          -> p

\* C10 as claimed: a priority that is present goes into the payload as High
\* for Critical, Medium for Major, Low for Minor and unchanged otherwise; the
\* payload has no priority field when priority is absent.
C10_PriorityPresentMapped ==
    \A h \in Handlers :
      Built(h) =>
        LET p == th[h].requirements.val[th[h].idx].priority IN
        th[h].payload.priority = IF p = None THEN NoField ELSE TableName(p)

\* C10 as amended: the same for a priority that is present and not the empty
\* string; the payload has no priority field when priority is absent or the
\* empty string.
C10_PriorityNonEmptyMapped ==
    \A h \in Handlers :
      Built(h) =>
        LET p == th[h].requirements.val[th[h].idx].priority IN
        th[h].payload.priority =
          IF p = None \/ p = "" THEN NoField ELSE TableName(p)

\* the payload of a requirement with priority Urgent carries Urgent
C10_Witness ==
    /\ Built(1)
    /\ th[1].requirements.val[th[1].idx].priority = "Urgent"
    /\ th[1].payload.priority = "Urgent"

\* the model's answer reached the parser
Parsed == share.stage \in {"analysis", "say_blocks", "complete"}

\* a JSON value of the ExtractionResult shape: an object with requirements
\* and their count, each requirement with id and title
Shaped(value) ==
    /\ value.type = "object"
    /\ value.has_requirements /\ value.has_total
    /\ \A i \in 1..Len(value.requirements) :
         value.requirements[i].id # None /\ value.requirements[i].title # None

EmptyModelOutput(result) ==
    result.exc = "ValueError" /\ result.msg = EmptyMessage

\* the failure of line 110, or one of its family (ValidationError is a
\* ValueError)
MalformedModelOutput(result) ==
    result.exc \in {"ValueError", "ValidationError"} /\ result.msg # EmptyMessage

\* C11: an answer that is not empty and is not valid JSON once the fences are
\* stripped, or is valid JSON not of the ExtractionResult shape, fails with
\* MalformedModelOutput and with no error of another kind; an answer with no
\* content fails with EmptyModelOutput.
C11_ParserFailureTyped ==
    Parsed =>
      IF share.content.none \/ share.content.lines = << >>
      THEN EmptyModelOutput(share.result)
      ELSE ( \/ JSONDecodeError(share.stripped)
             \/ ~Shaped(JsonLoads(share.stripped)) )
           => MalformedModelOutput(share.result)

\* a JSON text none of whose lines starts with a fence marker
JsonText(lines) ==
    /\ ~JSONDecodeError(lines)
    /\ \A i \in 1..Len(lines) : ~StartsWithFence(lines[i])

\* what _strip_code_fences returns is the trimmed input without, at most, its
\* first and its last line
OnlyEndsRemoved(input, output) ==
    LET t == StripSplit(input)
    IN  \E a \in 0..1, b \in 0..1 : output = SubSeq(t, 1 + a, Len(t) - b)

GenericError == "Unexpected error processing your document."

\* C17: a document event that fails in the download, the text extraction, the
\* model call or the parsing adds no entry to the store and exposes no key,
\* and what the user is told is the same generic error whether the model gave
\* no content or content that does not parse.
C17_ExtractionFailureFrame ==
    [][ uploads' = uploads + 1 =>
          /\ share'.stage \in {"files_info", "download", "extract_text",
                               "model_call", "analysis"} =>
               /\ store' = store /\ exposed' = exposed /\ nextKey' = nextKey
               /\ share'.result.exc # ""
          /\ ( /\ share'.stage = "analysis"
               /\ \/ EmptyModelOutput(share'.result)
                  \/ MalformedModelOutput(share'.result) ) =>
               share'.said = << Processing, GenericError >> ]_vars

\* a second document's answer did not parse while the first document's entry
\* was in the store, and the store holds that entry alone
C17_Witness ==
    /\ uploads = 2 /\ nextKey = 1
    /\ DOMAIN store = {1} /\ exposed = {1}
    /\ share.stage = "analysis"
    /\ share.result = Outcome("ValueError", ParseMessage, << >>)
    /\ share.said = << Processing, GenericError >>

\* C13: a confirmation whose key is not in the store, never issued or already
\* consumed, leaves the store as it is, makes no create call, and the message
\* it posts is the re-upload message.
C13_CacheMiss ==
    [][ \A h \in Handlers :
          /\ (Took(h) /\ th[h].cache_key \notin DOMAIN store) =>
               /\ store' = store
               /\ th'[h].pc = "post_reupload"
               /\ calls'[h] = 0 /\ tickets' = tickets
          /\ (th[h].pc = "post_reupload" /\ th'[h] # th[h]) =>
               /\ store' = store
               /\ calls[h] = 0 /\ calls'[h] = 0 /\ log'[h] = << >>
               /\ tickets' = tickets
               /\ \/ msgs'[h] = msgs[h]
                  \/ msgs'[h] = << [kind |-> "reupload", items |-> << >>] >>
      ]_vars

\* the second confirmation of key 1 ended with the re-upload message while
\* the first holds the list and key 2 is still stored
C13_Witness ==
    /\ th[1].cache_key = 1 /\ Holding(1) /\ ~th[1].requirements.none
    /\ th[2].pc = "done"
    /\ msgs[2] = << [kind |-> "reupload", items |-> << >>] >>
    /\ takes[1] = [hit |-> 1, miss |-> 1] /\ takes[StaleKey].miss = 0
    /\ DOMAIN store = {2}
    /\ calls[2] = 0

\* C14: an entry whose confirmation never comes is in the end removed from
\* the store.
C14_OrphansReclaimed ==
    \A k \in Keys : (k \in DOMAIN store) ~> (k \notin DOMAIN store)

\* C15: a requirement whose estimated_hours is present, 0 included, has the
\* original estimate of that many hours in its payload; the payload has no
\* estimate only when estimated_hours is absent.
C15_EstimatePresentMapped ==
    \A h \in Handlers :
      Built(h) =>
        LET e == th[h].requirements.val[th[h].idx].estimated_hours IN
        th[h].payload.timetracking =
          IF e = NoneInt THEN NoField ELSE ToString(e) \o "h"

\* C16: when create_jira_tasks returns, its result has one ticket for each
\* requirement, the i-th for the i-th requirement; and a create call for a
\* requirement is made only when every requirement before it has had its
\* 201.
C16_ResultInOrder ==
    \A h \in Handlers :
      LET l == th[h] IN
      /\ l.pc = "post_created" =>
           /\ Len(l.created_tasks) = Len(l.requirements.val)
           /\ \A i \in 1..Len(l.requirements.val) :
                /\ l.created_tasks[i].requirement_id = l.requirements.val[i].id
                /\ tickets[l.cache_key][i] = 1
      /\ l.pc \in {"call", "sleep", "call2"} =>
           /\ Len(l.created_tasks) = l.idx - 1
           /\ \A j \in 1..(l.idx - 1) :
                /\ tickets[l.cache_key][j] = 1
                /\ l.created_tasks[j].requirement_id = l.requirements.val[j].id

\* create_jira_tasks returned two tickets after more calls than requirements
C16_Witness ==
    /\ th[1].pc = "post_created"
    /\ Len(th[1].requirements.val) = 2
    /\ Len(th[1].created_tasks) = 2
    /\ th[1].created_tasks[2].requirement_id = "R2"
    /\ calls[1] > 2

\* the steps of an invocation from its first create call to its end
InEngine(h) ==
    /\ th[h].pc \in {"call", "sleep", "call2", "post_created", "post_failed"}
    /\ ~th[h].requirements.none

\* C18: while an invocation sleeps on a rate limit, a put by a document event
\* and the take of every other invocation can happen; and from its first
\* create call to its end an invocation does not touch the store.
C18_WaitBlocksNoOne ==
    /\ [](\A h \in Handlers :
            th[h].pc = "sleep" =>
              /\ uploads < MaxUploads => ENABLED Upload(SampleDocs, MaxUploads)
              /\ \A g \in Handlers : th[g].pc = "take" => ENABLED Take(g))
    /\ [][ \A h \in Handlers :
             (InEngine(h) /\ th'[h] # th[h]) => store' = store ]_vars

\* one invocation sleeps on the first key while another is about to take the
\* second key, which is stored
C18_Witness ==
    /\ th[1].pc = "sleep" /\ th[1].cache_key = 1
    /\ th[2].pc = "take" /\ th[2].cache_key = 2
    /\ 2 \in DOMAIN store

\* C19: a requirement takes at most 5 create calls, a confirmation of N
\* requirements at most 5*N, and every confirmation that has started ends.
C19_Terminates ==
    /\ [](\A h \in Handlers :
            /\ Len(log[h]) <= 5
            /\ Cardinality({j \in 1..Len(log[h]) : LoopCall(log[h], j)}) <= 4
            /\ Cardinality({j \in 1..Len(log[h]) : ~LoopCall(log[h], j)}) <= 1
            /\ IF Holding(h) /\ ~th[h].requirements.none
               THEN calls[h] <= 5 * Len(th[h].requirements.val)
               ELSE calls[h] = 0)
    /\ \A h \in Handlers : (th[h].pc = "take") ~> (th[h].pc = "done")

\* both requirements of a confirmation took 5 create calls each
C19_Witness ==
    /\ th[1].pc = "post_created"
    /\ Len(th[1].requirements.val) = 2
    /\ calls[1] = 10

Posting(h) == th[h].pc \in {"post_reupload", "post_created", "post_failed"}

\* C20: a confirmation whose posts go through posts one message: the
\* re-upload message iff the key was absent, the list of created tickets iff
\* create_jira_tasks returned, the failure message iff it raised, and then
\* some requirement has no ticket.
C20_SingleOutcome ==
    /\ [](\A h \in Handlers :
            /\ th[h].pc # "done" => msgs[h] = << >>
            /\ Len(msgs[h]) <= 1)
    /\ [][ \A h \in Handlers :
             ( /\ Posting(h) /\ th[h].exc # "SlackApiError"
               /\ msgs'[h] # msgs[h] ) =>
               LET m == msgs'[h][1]
                   l == th[h]
               IN  /\ msgs'[h] = << m >>
                   /\ th'[h].pc = "done"
                   /\ m.kind = "reupload" <=> l.requirements.none
                   /\ m.kind = "created" <=> l.pc = "post_created"
                   /\ m.kind = "failed" <=> EngineFailed(h)
                   /\ m.kind = "created" =>
                        /\ m.items = l.created_tasks
                        /\ Len(m.items) = Len(l.requirements.val)
                   /\ m.kind = "failed" =>
                        \E i \in 1..Len(l.requirements.val) :
                          tickets[l.cache_key][i] = 0 ]_vars

\* a confirmation of two requirements ended with the list of its two tickets
C20_Witness ==
    /\ th[1].pc = "done"
    /\ Len(msgs[1]) = 1
    /\ msgs[1][1].kind = "created"
    /\ Len(msgs[1][1].items) = 2

====
